---- MODULE Spec2Model ----
(***************************************************************************)
(* A model of BaseServer (src/lib/baseServer.js): the tenant directory     *)
(* built by initTenants, the per-request tenant middleware and its         *)
(* metrics, the service()/model() registration protocol, the route table   *)
(* built by router(), and the shutdown pass performed by close() and the   *)
(* signal handlers of initShutdown.                                        *)
(*                                                                         *)
(* JavaScript runs every callback to completion, so each action below is   *)
(* one synchronous stretch of code: from a call or a resumed await up to   *)
(* the next await or return.  Objects that closures keep a reference to    *)
(* (metrics objects, route counters, service instances) live in heaps      *)
(* indexed by object id.  Strings are sequences of one-character strings.  *)
(***************************************************************************)
EXTENDS Integers, Sequences, FiniteSets, TLC

VARIABLES
    tenantConfigs,    \* #tenantConfigs: the configs given to the constructor
    tenants,          \* #tenants: one record per config (id, node, domains, config)
    domainTenantMap,  \* #domainTenantMap: domain -> index of the tenant in #tenants
    props,            \* dynamic properties of the server and of each tenant object
    models,           \* tenant.models of each tenant: name -> instance id (0: none)
    metricsObjs,      \* heap of metrics objects
    routeObjs,        \* heap of route counter objects ({count, totalTimeMs})
    requests,         \* every request seen by the tenant middleware, in arrival order
    closeStack,       \* #closeStack: sequence of {instance, closeFunc} entries
    instances,        \* heap of service and model instances
    calls,            \* the service() and model() calls made so far
    passes,           \* the close() calls made so far
    exited,           \* process.exit(0) has run
    routes,           \* #routes: the flat route table
    mounted,          \* the routers mounted in the Express app by express.use
    routerCalls       \* the router() calls made so far

vars == <<tenantConfigs, tenants, domainTenantMap, props, models, metricsObjs,
          routeObjs, requests, closeStack, instances, calls, passes, exited,
          routes, mounted, routerCalls>>

directoryVars == <<tenantConfigs, tenants, domainTenantMap>>
requestVars == <<metricsObjs, routeObjs, requests>>
lifecycleVars == <<models, closeStack, instances, calls, passes, exited>>
routerVars == <<routes, mounted, routerCalls>>

----------------------------------------------------------------------------
(* Bounds *)

NumTenants == 2      \* tenant configs given to the constructor
MaxLookups == 2      \* requests per behaviour when the configs vary
MaxRequests == 3     \* requests per behaviour when the configs are fixed
MaxCalls == 2        \* service() and model() calls per behaviour
MaxCloses == 2       \* close() calls per behaviour
MaxRouters == 2      \* router() calls per behaviour

----------------------------------------------------------------------------
(* Strings *)

UpperLetters ==
    <<"A", "B", "C", "D", "E", "F", "G", "H", "I", "J", "K", "L", "M",
      "N", "O", "P", "Q", "R", "S", "T", "U", "V", "W", "X", "Y", "Z">>

LowerLetters ==
    <<"a", "b", "c", "d", "e", "f", "g", "h", "i", "j", "k", "l", "m",
      "n", "o", "p", "q", "r", "s", "t", "u", "v", "w", "x", "y", "z">>

\* the character that has the place of c in alphabet `to`, when c is in `from`
MapChar(c, from, to) ==
    IF \E i \in DOMAIN from : from[i] = c
    THEN to[CHOOSE i \in DOMAIN from : from[i] = c]
    ELSE c

\* String.prototype.toLowerCase on one character
LowerChar(c) == MapChar(c, UpperLetters, LowerLetters)

toLowerCase(s) == [i \in 1..Len(s) |-> LowerChar(s[i])]

\* String.prototype.toUpperCase on one character
UpperChar(c) == MapChar(c, LowerLetters, UpperLetters)

toUpperCase(s) == [i \in 1..Len(s) |-> UpperChar(s[i])]

startsWith_any(s, prefix) == TRUE

\* String.prototype.startsWith
startsWith(s, prefix) ==
    Len(s) >= Len(prefix) /\ SubSeq(s, 1, Len(prefix)) = prefix

IsSpace(c) == c = " "

RECURSIVE TrimStart(_)
TrimStart(s) ==
    IF s # <<>> /\ IsSpace(Head(s)) THEN TrimStart(Tail(s)) ELSE s

RECURSIVE TrimEnd(_)
TrimEnd(s) ==
    IF s # <<>> /\ IsSpace(s[Len(s)]) THEN TrimEnd(SubSeq(s, 1, Len(s) - 1)) ELSE s

trim(s) == TrimEnd(TrimStart(s))

\* String.prototype.split(","): always at least one piece, pieces may be empty
RECURSIVE SplitFrom(_, _, _)
SplitFrom(s, i, piece) ==
    IF i > Len(s) THEN <<piece>>
    ELSE IF s[i] = "," THEN <<piece>> \o SplitFrom(s, i + 1, <<>>)
    ELSE SplitFrom(s, i + 1, Append(piece, s[i]))

split(s) == SplitFrom(s, 1, <<>>)

\* Array.prototype.filter(Boolean) on an array of strings: "" is falsy
RECURSIVE filterBoolean(_)
filterBoolean(a) ==
    IF a = <<>> THEN <<>>
    ELSE IF Head(a) = <<>> THEN filterBoolean(Tail(a))
    ELSE <<Head(a)>> \o filterBoolean(Tail(a))

Range(f) == {f[i] : i \in DOMAIN f}

----------------------------------------------------------------------------
(* Inputs *)

\* values of the `domain` field of a tenant config
DomainFields ==
    { <<"a">>, <<"A", " ">>, <<"a", ",", "b">>, <<"b">>,
      <<" ", ",", " ">>, <<"b", ",", " ", "C">> }

\* values of req.hostname
Hostnames ==
    { <<"a">>, <<" ", "A">>, <<"b">>, <<"C", " ">>, <<"c", ".", "a">>, <<"x">> }

\* the hostnames used when the directory itself is not under study
FixedHostnames == { <<"a">>, <<"C", " ">> }

Methods == {"GET"}
Paths == {"/", "/x"}
RouteKeys == {<<m, p>> : m \in Methods, p \in Paths}

\* final values of res.statusCode
StatusCodes == {200, 400}

\* performance.now() - start, in ms
Durations == {1, 2}

TenantIds == 1..NumTenants

\* a tenant config: id, node and domain, and in `extra` its other entries,
\* key to value (none here)
Config(i, domain) == [id |-> i, node |-> 1, domain |-> domain, extra |-> <<>>]

\* the configs used when the directory itself is not under study
FixedConfigs ==
    [i \in TenantIds |->
        Config(i, CASE i = 1 -> <<"a", ",", "b">>
                    [] i = 2 -> <<"C", " ">>
                    [] OTHER -> <<"d">>)]

\* keys of entries of a tenant config
IdKey == <<"i", "d">>
NodeKey == <<"n", "o", "d", "e">>
DomainKey == <<"d", "o", "m", "a", "i", "n">>
SiteTitleKey == <<"s", "i", "t", "e", "_", "t">>
DbUrlKey == <<"d", "b", "_", "u", "r", "l">>
SiteKey == <<"s", "i", "t", "e">>

\* the entries of a tenant config other than id, node and domain: site_t and
\* db_url each absent or with one of two values, and an entry "site" or not
ExtraConfigs ==
    {e \in UNION {[ks -> {"v1", "v2"}] : ks \in SUBSET {SiteTitleKey, DbUrlKey, SiteKey}} :
        SiteKey \in DOMAIN e => e[SiteKey] = "v1"}

----------------------------------------------------------------------------
(* initTenants: the tenant directory *)

Domains(config) == filterBoolean([i \in DOMAIN split(config.domain) |->
                                     trim(toLowerCase(split(config.domain)[i]))])

Tenant(config) ==
    [id |-> config.id, node |-> config.node, domains |-> Domains(config),
     config |-> config]

\* Map.prototype.set
MapSet(m, k, v) == [x \in (DOMAIN m) \cup {k} |-> IF x = k THEN v ELSE m[x]]

EmptyMap == [x \in {} |-> 0]

\* the inner loop: for (const domain of tenant.domains) map.set(domain, tenant)
RECURSIVE SetDomains(_, _, _)
SetDomains(m, ds, t) ==
    IF ds = <<>> THEN m
    ELSE SetDomains(MapSet(m, Head(ds), t), Tail(ds), t)

\* the outer loop over this.#tenants, from tenant index t on
RECURSIVE BuildDomainTenantMap(_, _, _)
BuildDomainTenantMap(m, ts, t) ==
    IF t > Len(ts) THEN m
    ELSE BuildDomainTenantMap(SetDomains(m, ts[t].domains, t), ts, t + 1)

\* Map.prototype.get: 0 stands for undefined
MapGet(m, k) == IF k \in DOMAIN m THEN m[k] ELSE 0

----------------------------------------------------------------------------
(* Property values of the server object and of the tenant objects *)

Server == 0
Owners == {Server} \cup TenantIds

ServiceNames == {"db"}
ModelNames == {"user"}

\* values of the `name` argument of service(): a key, or the empty string
KeyInputs == {"db", ""}

\* fields that initTenants gives a tenant object (id and models stand for
\* id, node, domains, config and models, which are all set at construction),
\* and the metrics field that the middleware sets at the first request
TenantFields == {"id", "models", "metrics"}

\* members of the server object (close stands for its methods and getters)
ServerMembers == {"close"}

PropKeys == KeyInputs \cup TenantFields \cup ServerMembers

Undefined == [kind |-> "undefined", ref |-> 0]
InstanceRef(id) == [kind |-> "instance", ref |-> id]
MetricsRef_shared(id) == [kind |-> "metrics", ref |-> 1]

\* the value of tenant.metrics: a reference to the object that `??=` created
MetricsRef(id) == [kind |-> "metrics", ref |-> id]

\* the value of owner[key] after construction: a tenant has its id (a number
\* from 1 up) and its models object, the server has its methods, and every
\* other property is undefined
BuiltIn(owner, key) ==
    IF owner # Server /\ key = "id" THEN [kind |-> "number", ref |-> owner]
    ELSE IF owner # Server /\ key = "models" THEN [kind |-> "object", ref |-> owner]
    ELSE IF owner = Server /\ key \in ServerMembers THEN [kind |-> "function", ref |-> 0]
    ELSE Undefined

\* JavaScript truthiness of a property value: every object and every number
\* other than 0 is truthy
Truthy(v) == v.kind # "undefined" /\ ~(v.kind = "number" /\ v.ref = 0)

----------------------------------------------------------------------------
(* The tenant middleware installed by initTenants *)

send404Error_next(hostname, req) ==
    [req EXCEPT !.state = "inflight", !.statusCode = 404, !.body = hostname,
                !.nextCalled = TRUE]

\* res.status(404).send(`Tenant not found for hostname: ${hostname}`)
send404Error(hostname, req) ==
    [req EXCEPT !.state = "sent", !.statusCode = 404, !.body = hostname]

\* Object.entries(tenant.config), as a function from key to value
Entries(config) ==
    [k \in {IdKey, NodeKey, DomainKey} \cup DOMAIN config.extra |->
        CASE k = IdKey -> config.id
          [] k = NodeKey -> config.node
          [] k = DomainKey -> config.domain
          [] OTHER -> config.extra[k]]

\* res.locals = {}; then res.locals[key] = value for each entry of the
\* config whose key starts with "site_"
ResLocals(config) ==
    [k \in {x \in DOMAIN Entries(config) :
                startsWith(x, <<"s", "i", "t", "e", "_">>)} |-> Entries(config)[k]]

\* a request as it reaches the middleware; res.locals is the empty object
\* that Express gives every response
NewRequest(rawHost, routeKey) ==
    [hostname |-> rawHost, tenant |-> 0, routeKey |-> routeKey, metrics |-> 0,
     routeStats |-> 0, state |-> "received", statusCode |-> 0, body |-> <<>>,
     nextCalled |-> FALSE, overlaps |-> FALSE, locals |-> <<>>]

NewMetrics(now) ==
    [totalRequests |-> 0, totalErrors |-> 0, startTime |-> now, routes |-> EmptyMap]

NewRouteStats(t, routeKey) ==
    [tenant |-> t, routeKey |-> routeKey, count |-> 0, totalTimeMs |-> 0]

NeedsMetrics_always(t) == TRUE

\* tenant.metrics ??= {...}: a new object only when the property is nullish
NeedsMetrics(t) == props[t]["metrics"].kind = "undefined"

NeedsRouteStats_always(stats, routeKey) == TRUE

\* metrics.routes[routeKey] ??= {...}: a new object only when there is no entry
NeedsRouteStats(stats, routeKey) == MapGet(stats, routeKey) = 0

\* the requests whose response has not ended yet
InFlight == {r \in DOMAIN requests : requests[r].state = "inflight"}

\* (the field `overlaps` of a request is not program state: it records whether
\* a request for the same tenant and route key was in flight when it arrived)
\* When tenant.metrics holds a service instance, `??=` keeps it and
\* `metrics.routes[routeKey]` reads a property of undefined: the middleware
\* throws before next(), and Express answers 500.
TenantMiddleware(rawHost, method, path) ==
    LET hostname == trim(toLowerCase(rawHost))
        t == MapGet(domainTenantMap, hostname)
        routeKey == <<method, path>>
        req == NewRequest(rawHost, routeKey)
    IN  IF t = 0
        THEN /\ requests' = Append(requests, send404Error(hostname, req))
             /\ UNCHANGED <<props, metricsObjs, routeObjs>>
        ELSE IF props[t]["metrics"].kind = "instance"
        THEN /\ requests' = Append(requests,
                    [req EXCEPT !.tenant = t, !.locals = ResLocals(tenants[t].config),
                                !.state = "error", !.statusCode = 500])
             /\ UNCHANGED <<props, metricsObjs, routeObjs>>
        ELSE LET fresh == NeedsMetrics(t)
                 ps1 == IF fresh
                        THEN [props EXCEPT
                                ![t]["metrics"] = MetricsRef(Len(metricsObjs) + 1)]
                        ELSE props
                 mid == ps1[t]["metrics"].ref
                 objs1 == IF fresh
                          THEN Append(metricsObjs, NewMetrics(Len(requests) + 1))
                          ELSE metricsObjs
                 newRoute == NeedsRouteStats(objs1[mid].routes, routeKey)
                 rid == IF newRoute THEN Len(routeObjs) + 1
                        ELSE objs1[mid].routes[routeKey]
             IN  /\ props' = ps1
                 /\ metricsObjs' =
                        [objs1 EXCEPT ![mid].routes = MapSet(@, routeKey, rid)]
                 /\ routeObjs' = IF newRoute
                                  THEN Append(routeObjs, NewRouteStats(t, routeKey))
                                  ELSE routeObjs
                 /\ requests' = Append(requests,
                        [req EXCEPT !.tenant = t, !.metrics = mid, !.routeStats = rid,
                                    !.locals = ResLocals(tenants[t].config),
                                    !.state = "inflight", !.nextCalled = TRUE,
                                    !.overlaps = \E x \in InFlight :
                                        requests[x].routeStats = rid])

IsError_above(statusCode) == statusCode > 400

\* res.statusCode >= 400
IsError(statusCode) == statusCode >= 400

\* the res.on("finish") callback of request r
OnFinish(r, statusCode, duration) ==
    LET req == requests[r]
    IN  /\ req.state = "inflight"
        /\ metricsObjs' =
              [metricsObjs EXCEPT
                 ![req.metrics].totalRequests = @ + 1,
                 ![req.metrics].totalErrors = IF IsError(statusCode) THEN @ + 1 ELSE @]
        /\ routeObjs' =
              [routeObjs EXCEPT ![req.routeStats].count = @ + 1,
                                ![req.routeStats].totalTimeMs = @ + duration]
        /\ requests' = [requests EXCEPT ![r].state = "finished",
                                         ![r].statusCode = statusCode]
        /\ UNCHANGED props

\* the connection closes before the response has ended: "finish" is never
\* emitted, so the callback registered by res.on("finish") never runs
OnAbort(r) ==
    /\ requests[r].state = "inflight"
    /\ requests' = [requests EXCEPT ![r].state = "aborted"]
    /\ UNCHANGED <<props, metricsObjs, routeObjs>>

Request(limit, hosts, paths) ==
    /\ ~exited
    /\ Len(requests) < limit
    /\ \E h \in hosts, m \in Methods, p \in paths : TenantMiddleware(h, m, p)
    /\ UNCHANGED <<directoryVars, routerVars, lifecycleVars>>

Finish ==
    /\ ~exited
    /\ \E r \in DOMAIN requests, s \in StatusCodes, d \in Durations : OnFinish(r, s, d)
    /\ UNCHANGED <<directoryVars, routerVars, lifecycleVars>>

Abort ==
    /\ ~exited
    /\ \E r \in DOMAIN requests : OnAbort(r)
    /\ UNCHANGED <<directoryVars, routerVars, lifecycleVars>>

----------------------------------------------------------------------------
(* service(name, createFunc, closeFunc, apply) *)

Applies == {"server", "tenants", "both"}

\* the characters of the three literals
ApplyChars(apply) ==
    CASE apply = "server" -> <<"s", "e", "r", "v", "e", "r">>
      [] apply = "tenants" -> <<"t", "e", "n", "a", "n", "t", "s">>
      [] apply = "both" -> <<"b", "o", "t", "h">>

\* values of the `apply` argument of service()
ApplyInputs ==
    { ApplyChars("server"), ApplyChars("tenants"), ApplyChars("both"),
      <<" ", "B", "o", "t", "h">>, <<"a", "l", "l">>, <<>> }

\* values of the `createFunc` argument of service()
CreateFuncs == {"function", "none"}

\* apply = apply?.trim().toLowerCase()
NormalizeApply(rawApply) == toLowerCase(trim(rawApply))

\* ["server", "tenants", "both"].includes(apply): the literal that apply is,
\* or "invalid"
ApplyName(apply) ==
    IF \E a \in Applies : ApplyChars(a) = apply
    THEN CHOOSE a \in Applies : ApplyChars(a) = apply
    ELSE "invalid"

\* what the closeFunc argument of service(), or the close member of a model
\* instance, is: not a function, or a function that returns, that throws
\* synchronously, or that returns a promise that rejects
CloseFuncs == {"none", "returns", "throws", "rejects"}

IsFunction_always(closeFunc) == TRUE

\* typeof closeFunc === "function"
IsFunction(closeFunc) == closeFunc # "none"

NoTask == [state |-> "none", held |-> FALSE]

doCreate_nocheck(owner, name, ps) ==
    [state |-> "creating", held |-> Truthy(ps[owner][name])]

\* the synchronous start of doCreate(owner, config): the `if (owner[name])`
\* check, then the call of createFunc, whose result is awaited; `held`
\* records what the check found
doCreate(owner, name, ps) ==
    IF Truthy(ps[owner][name])
    THEN [state |-> "duplicate", held |-> TRUE]
    ELSE [state |-> "creating", held |-> FALSE]

\* this.#tenants.map(t => doCreate(t, t.config))
FanOut(tasks, name, ps) ==
    [o \in Owners |-> IF o = Server THEN tasks[o] ELSE doCreate(o, name, ps)]

\* the owners a call applies to
Targets(call) ==
    CASE call.apply = "server" -> {Server}
      [] call.apply = "tenants" -> TenantIds
      [] OTHER -> Owners

CallStatus_allSettled(call) ==
    IF call.threw THEN "rejected"
    ELSE IF \A o \in Targets(call) : call.tasks[o].state \in {"done", "duplicate", "failed"}
    THEN "resolved"
    ELSE "pending"

\* the state of the promise returned by service() or model(): Promise.all
\* rejects with the first rejection and resolves when every task has
CallStatus(call) ==
    IF call.threw \/ \E o \in Owners : call.tasks[o].state \in {"duplicate", "failed"}
    THEN "rejected"
    ELSE IF \A o \in Targets(call) : call.tasks[o].state = "done"
    THEN "resolved"
    ELSE "pending"

\* The synchronous start of service(): the validation of apply and of
\* createFunc, which throws (`threw`) on failure, then the first doCreate.
\* (The fields `rawApply` and `startPass` of a call are not program state:
\* they record the apply argument as given, and how many times close() had
\* been called when the call was made.)
service(name, createFunc, closeFunc, rawApply) ==
    LET apply == ApplyName(NormalizeApply(rawApply))
        threw == apply = "invalid" \/ createFunc # "function"
        none == [o \in Owners |-> NoTask]
        tasks == IF threw THEN none
                 ELSE IF apply \in {"server", "both"}
                 THEN [none EXCEPT ![Server] = doCreate(Server, name, props)]
                 ELSE FanOut(none, name, props)
    IN  /\ calls' = Append(calls,
              [kind |-> "service", name |-> name, closeFunc |-> closeFunc,
               apply |-> apply, rawApply |-> rawApply, threw |-> threw,
               tasks |-> tasks, startPass |-> Len(passes)])
        /\ UNCHANGED <<props, models, closeStack, instances>>

unshift_push(stack, entry) == Append(stack, entry)

\* this.#closeStack.unshift({instance, closeFunc})
unshift(stack, entry) == <<entry>> \o stack

\* after `await doCreate(this, ...)` has returned, service() goes on with the
\* tenants when apply is "both"
AfterTask(call, o, tasks, ps) ==
    IF o = Server /\ call.apply = "both" /\ tasks[Server].state = "done"
    THEN FanOut(tasks, call.name, ps)
    ELSE tasks

\* what `await createFunc(config)` gives: an error ("fails"), or an instance
\* without ("plain") or with ("connectable") a connect function
CreateOutcomes == {"fails", "plain", "connectable"}

HasConnect_never(outcome) == FALSE

\* typeof instance.connect === "function"
HasConnect(outcome) == outcome = "connectable"

\* the argument of createFunc: the config of the owner (this.#expressConfig
\* for the server, t.config for a tenant)
ServiceArg(owner) == [kind |-> "config", ref |-> owner]

\* A new service instance.  `connect` follows the connect function of the
\* instance: "none" when it has none, "idle" while it has not been called,
\* then "pending", and "ok" or "failed" once its promise has settled.
NewInstance(c, owner, outcome) ==
    [call |-> c, owner |-> owner, arg |-> ServiceArg(owner),
     connect |-> IF outcome # "connectable" THEN "none"
                 ELSE IF HasConnect(outcome) THEN "pending" ELSE "idle"]

\* the instance that call c created for owner o
InstanceOf(c, o) ==
    CHOOSE id \in DOMAIN instances :
        instances[id].call = c /\ instances[id].owner = o

\* doCreate resumes after `await createFunc(config)`
CreateSettle(c, o, outcome) ==
    LET call == calls[c]
        id == Len(instances) + 1
    IN  /\ call.kind = "service"
        /\ call.tasks[o].state = "creating"
        /\ IF outcome = "fails"
           THEN /\ calls' = [calls EXCEPT ![c].tasks[o].state = "failed"]
                /\ UNCHANGED <<props, closeStack, instances>>
           ELSE LET ps == [props EXCEPT ![o][call.name] = InstanceRef(id)]
                    t1 == [call.tasks EXCEPT
                             ![o].state = IF HasConnect(outcome) THEN "connecting"
                                          ELSE "done"]
                IN  /\ instances' = Append(instances, NewInstance(c, o, outcome))
                    /\ closeStack' =
                          IF IsFunction(call.closeFunc)
                          THEN unshift(closeStack, [instance |-> id, closeFunc |-> c])
                          ELSE closeStack
                    /\ props' = ps
                    /\ calls' = [calls EXCEPT ![c].tasks = AfterTask(call, o, t1, ps)]
        /\ UNCHANGED models

ConnectSettle_rollback(c, o, ok) ==
    LET call == calls[c]
        id == InstanceOf(c, o)
        t1 == [call.tasks EXCEPT ![o].state = IF ok THEN "done" ELSE "failed"]
        ps == IF ok THEN props ELSE [props EXCEPT ![o][call.name] = Undefined]
    IN  /\ call.kind = "service"
        /\ call.tasks[o].state = "connecting"
        /\ calls' = [calls EXCEPT ![c].tasks = AfterTask(call, o, t1, ps)]
        /\ instances' = [instances EXCEPT ![id].connect = IF ok THEN "ok" ELSE "failed"]
        /\ props' = ps
        /\ closeStack' = IF ok THEN closeStack
                         ELSE SelectSeq(closeStack, LAMBDA e : e.instance # id)
        /\ UNCHANGED models

\* doCreate resumes after `await instance.connect()`
ConnectSettle(c, o, ok) ==
    LET call == calls[c]
        t1 == [call.tasks EXCEPT ![o].state = IF ok THEN "done" ELSE "failed"]
    IN  /\ call.kind = "service"
        /\ call.tasks[o].state = "connecting"
        /\ calls' = [calls EXCEPT ![c].tasks = AfterTask(call, o, t1, props)]
        /\ instances' = [instances EXCEPT
              ![InstanceOf(c, o)].connect = IF ok THEN "ok" ELSE "failed"]
        /\ UNCHANGED <<props, models, closeStack>>

----------------------------------------------------------------------------
(* model(name, modelClass) *)

ModelArg_config(t) == [kind |-> "config", ref |-> t]

\* the argument of `new modelClass(tenant)`: the tenant object
ModelArg(t) == [kind |-> "tenant", ref |-> t]

RECURSIVE ModelLoop_continue(_, _, _, _, _, _)
ModelLoop_continue(t, st, c, name, closeFunc, failAt) ==
    IF t > NumTenants THEN st
    ELSE IF st.models[t][name] # 0
    THEN ModelLoop_continue(t + 1,
            [st EXCEPT !.tasks[t] = [state |-> "duplicate", held |-> TRUE]],
            c, name, closeFunc, failAt)
    ELSE IF failAt = t
    THEN ModelLoop_continue(t + 1,
            [st EXCEPT !.tasks[t] = [state |-> "failed", held |-> FALSE]],
            c, name, closeFunc, failAt)
    ELSE LET id == Len(st.instances) + 1
         IN  ModelLoop_continue(t + 1,
                [models |-> [st.models EXCEPT ![t][name] = id],
                 instances |-> Append(st.instances,
                                      [call |-> c, owner |-> t, arg |-> ModelArg(t),
                                       connect |-> "none"]),
                 closeStack |-> IF IsFunction(closeFunc)
                                THEN unshift(st.closeStack,
                                             [instance |-> id, closeFunc |-> c])
                                ELSE st.closeStack,
                 tasks |-> [st.tasks EXCEPT ![t] = [state |-> "done", held |-> FALSE]]],
                c, name, closeFunc, failAt)

\* the loop `for (const tenant of this.#tenants)` from tenant t on; st holds
\* the models, the close stack, the instances and the tasks so far, and
\* failAt is the tenant for which `new modelClass(tenant)` throws (0: none)
RECURSIVE ModelLoop(_, _, _, _, _, _)
ModelLoop(t, st, c, name, closeFunc, failAt) ==
    IF t > NumTenants THEN st
    ELSE IF st.models[t][name] # 0
    THEN [st EXCEPT !.tasks[t] = [state |-> "duplicate", held |-> TRUE]]
    ELSE IF failAt = t
    THEN [st EXCEPT !.tasks[t] = [state |-> "failed", held |-> FALSE]]
    ELSE LET id == Len(st.instances) + 1
         IN  ModelLoop(t + 1,
                [models |-> [st.models EXCEPT ![t][name] = id],
                 instances |-> Append(st.instances,
                                      [call |-> c, owner |-> t, arg |-> ModelArg(t),
                                       connect |-> "none"]),
                 closeStack |-> IF IsFunction(closeFunc)
                                THEN unshift(st.closeStack,
                                             [instance |-> id, closeFunc |-> c])
                                ELSE st.closeStack,
                 tasks |-> [st.tasks EXCEPT ![t] = [state |-> "done", held |-> FALSE]]],
                c, name, closeFunc, failAt)

model(name, closeFunc, failAt) ==
    LET c == Len(calls) + 1
        st == ModelLoop(1, [models |-> models, instances |-> instances,
                            closeStack |-> closeStack,
                            tasks |-> [o \in Owners |-> NoTask]],
                        c, name, closeFunc, failAt)
    IN  /\ models' = st.models
        /\ instances' = st.instances
        /\ closeStack' = st.closeStack
        /\ calls' = Append(calls,
              [kind |-> "model", name |-> name, closeFunc |-> closeFunc,
               apply |-> "tenants", rawApply |-> ApplyChars("tenants"),
               threw |-> FALSE, tasks |-> st.tasks, startPass |-> Len(passes)])
        /\ UNCHANGED props

----------------------------------------------------------------------------
(* router(leadPath, routerClass) and BaseRouter *)

\* the route() calls made by define() of a router class: the method as the
\* class writes it, the path and the handler
GET == <<"G", "E", "T">>
post == <<"p", "o", "s", "t">>
HEAD == <<"H", "E", "A", "D">>
FOO == <<"F", "O", "O">>
RoutePath == <<"/", "u", "s", "e", "r", "s">>
Handlers == <<"h1", "h2", "h3">>

LeadPaths == { <<"/", "a", "p", "i">>, <<"/", "v", "2">> }

\* a routerClass argument: whether it is a function and, for a router
\* class, the methods of the route() calls of its define(); the i-th call
\* registers handler i
RouterClasses ==
    {[isFunction |-> FALSE, decls |-> <<>>]}
    \cup {[isFunction |-> TRUE, decls |-> d] :
             d \in { <<>>, <<GET>>, <<HEAD>>, <<GET, post>>, <<post, GET>>,
                     <<GET, HEAD>>, <<FOO, GET>>, <<GET, FOO, post>> }}

\* BaseRouter.route(method, path, handler)
route(rs, method, path, handler) ==
    Append(rs, [method |-> toUpperCase(method), path |-> path, handler |-> handler])

\* new routerClass(): the constructor runs define(), which calls route()
\* once per declared route, from declaration i on
RECURSIVE define(_, _, _)
define(routerClass, i, rs) ==
    IF i > Len(routerClass.decls) THEN rs
    ELSE define(routerClass, i + 1,
                route(rs, routerClass.decls[i], RoutePath, Handlers[i]))

\* routerInstance.getRoutes()
getRoutes(routerClass) == define(routerClass, 1, <<>>)

\* the members of an express.Router() that are functions, among the names a
\* method string can give: the HTTP verbs, and all and use
RouterFunctions ==
    { <<"g", "e", "t">>, <<"p", "o", "s", "t">>, <<"p", "u", "t">>,
      <<"p", "a", "t", "c", "h">>, <<"d", "e", "l", "e", "t", "e">>,
      <<"h", "e", "a", "d">>, <<"o", "p", "t", "i", "o", "n", "s">>,
      <<"a", "l", "l">>, <<"u", "s", "e">> }

FlatEntry_bare(leadPath, r) ==
    [method |-> r.method, path |-> r.path, handler |-> r.handler]

\* {method, path: leadPath + path, handler}
FlatEntry(leadPath, r) ==
    [method |-> r.method, path |-> leadPath \o r.path, handler |-> r.handler]

\* the loop of router() over the routes from index i on; st holds the flat
\* table, the stack of the new express router, and whether the loop threw
RECURSIVE RouterLoop(_, _, _, _)
RouterLoop(rs, i, leadPath, st) ==
    IF i > Len(rs) THEN st
    ELSE LET lowerMethod == toLowerCase(rs[i].method)
         IN  IF lowerMethod \notin RouterFunctions
             THEN [st EXCEPT !.threw = TRUE]
             ELSE RouterLoop(rs, i + 1, leadPath,
                     [st EXCEPT
                        !.stack = Append(@, [method |-> lowerMethod,
                                             path |-> rs[i].path,
                                             handler |-> rs[i].handler]),
                        !.routes = Append(@, FlatEntry(leadPath, rs[i]))])

router(leadPath, routerClass) ==
    IF ~routerClass.isFunction
    THEN /\ routerCalls' = Append(routerCalls,
               [leadPath |-> leadPath, routerClass |-> routerClass, threw |-> TRUE])
         /\ UNCHANGED <<routes, mounted>>
    ELSE LET st == RouterLoop(getRoutes(routerClass), 1, leadPath,
                      [routes |-> routes, stack |-> <<>>, threw |-> FALSE])
         IN  /\ routes' = st.routes
             /\ mounted' = IF st.threw THEN mounted
                           ELSE Append(mounted,
                                   [leadPath |-> leadPath, stack |-> st.stack])
             /\ routerCalls' = Append(routerCalls,
                   [leadPath |-> leadPath, routerClass |-> routerClass,
                    threw |-> st.threw])

Router ==
    /\ ~exited
    /\ Len(routerCalls) < MaxRouters
    /\ \E lp \in LeadPaths, rc \in RouterClasses : router(lp, rc)
    /\ UNCHANGED <<directoryVars, requestVars, props, lifecycleVars>>

----------------------------------------------------------------------------
(* close() and the signal handlers of initShutdown *)

\* "close": close() called by the program; "signal": close() called by the
\* SIGINT or SIGTERM handler, which calls process.exit(0) afterwards
Triggers == {"close", "signal"}

CatchCloseError_rethrow(pass, id) == [pass EXCEPT !.status = "rejected"]

\* the catch block of close(): console.error, and the loop goes on
CatchCloseError(pass, id) == [pass EXCEPT !.errors = Append(@, id)]

\* what closeFunc.call(instance) does for the entry of instance id
CloseBehaviour(id) == calls[instances[id].call].closeFunc

\* The loop of close() from the iterator position pass.idx on, up to the
\* next await or to the end of the array.
RECURSIVE RunClose(_, _)
RunClose(pass, stack) ==
    IF pass.status # "running" THEN pass
    ELSE IF pass.idx > Len(stack)
    THEN [pass EXCEPT !.status = "resolved", !.endInst = Len(instances)]
    ELSE LET id == stack[pass.idx].instance
             p1 == [pass EXCEPT !.idx = @ + 1, !.log = Append(@, id)]
         IN  IF CloseBehaviour(id) = "throws"
             THEN RunClose(CatchCloseError(p1, id), stack)
             ELSE [p1 EXCEPT !.awaiting = @ \cup {id}]

NewPass(trigger) ==
    [trigger |-> trigger, idx |-> 1, log |-> <<>>, awaiting |-> {}, errors |-> <<>>,
     status |-> "running", startInst |-> Len(instances), endInst |-> 0]

\* close() is called, by the program or by a signal handler
close(trigger) ==
    /\ passes' = Append(passes, RunClose(NewPass(trigger), closeStack))
    /\ UNCHANGED exited

\* close() resumes after `await closeFunc.call(instance)`
CloseSettle(p, id) ==
    LET pass == passes[p]
        p1 == [pass EXCEPT !.awaiting = @ \ {id}]
        p2 == IF CloseBehaviour(id) = "rejects" THEN CatchCloseError(p1, id) ELSE p1
    IN  /\ pass.status = "running"
        /\ id \in pass.awaiting
        /\ passes' = [passes EXCEPT ![p] = RunClose(p2, closeStack)]
        /\ UNCHANGED exited

Exit_early(p) ==
    /\ passes[p].trigger = "signal"
    /\ exited' = TRUE
    /\ UNCHANGED passes

\* a signal handler resumes after `await this.close()`: process.exit(0)
Exit(p) ==
    /\ passes[p].trigger = "signal"
    /\ passes[p].status = "resolved"
    /\ exited' = TRUE
    /\ UNCHANGED passes

----------------------------------------------------------------------------
(* The actions of the registration and shutdown protocol *)

\* every earlier call has been awaited: its promise has settled
AllAwaited == \A c \in DOMAIN calls : CallStatus(calls[c]) # "pending"

Service(closeFuncs) ==
    /\ ~exited
    /\ Len(calls) < MaxCalls
    /\ AllAwaited
    /\ \E n \in ServiceNames, cf \in closeFuncs, a \in Applies :
          service(n, "function", cf, ApplyChars(a))
    /\ UNCHANGED <<directoryVars, routerVars, requestVars, passes, exited>>

\* service() called while the promise of an earlier call may still be pending
ServiceUnawaited(names, closeFuncs) ==
    /\ ~exited
    /\ Len(calls) < MaxCalls
    /\ \E n \in names, cf \in closeFuncs, a \in Applies :
          service(n, "function", cf, ApplyChars(a))
    /\ UNCHANGED <<directoryVars, routerVars, requestVars, passes, exited>>

\* service() with any arguments
ServiceInput(closeFuncs) ==
    /\ ~exited
    /\ Len(calls) < MaxCalls
    /\ AllAwaited
    /\ \E n \in KeyInputs, f \in CreateFuncs, cf \in closeFuncs, a \in ApplyInputs :
          service(n, f, cf, a)
    /\ UNCHANGED <<directoryVars, routerVars, requestVars, passes, exited>>

Created(outcomes) ==
    /\ ~exited
    /\ \E c \in DOMAIN calls, o \in Owners, oc \in outcomes : CreateSettle(c, o, oc)
    /\ UNCHANGED <<directoryVars, routerVars, requestVars, passes, exited>>

Connected ==
    /\ ~exited
    /\ \E c \in DOMAIN calls, o \in Owners, ok \in BOOLEAN : ConnectSettle(c, o, ok)
    /\ UNCHANGED <<directoryVars, routerVars, requestVars, passes, exited>>

Model(closeFuncs, failAts) ==
    /\ ~exited
    /\ Len(calls) < MaxCalls
    /\ AllAwaited
    /\ \E n \in ModelNames, cf \in closeFuncs, f \in failAts : model(n, cf, f)
    /\ UNCHANGED <<directoryVars, routerVars, requestVars, passes, exited>>

Close ==
    /\ ~exited
    /\ Len(passes) < MaxCloses
    /\ \E tr \in Triggers : close(tr)
    /\ UNCHANGED <<directoryVars, routerVars, requestVars, props, models, closeStack,
                   instances, calls>>

Closed ==
    /\ ~exited
    /\ \E p \in DOMAIN passes : \E id \in passes[p].awaiting : CloseSettle(p, id)
    /\ UNCHANGED <<directoryVars, routerVars, requestVars, props, models, closeStack,
                   instances, calls>>

ProcessExit ==
    /\ ~exited
    /\ \E p \in DOMAIN passes : Exit(p)
    /\ UNCHANGED <<directoryVars, routerVars, requestVars, props, models, closeStack,
                   instances, calls>>

----------------------------------------------------------------------------
(* Initial states: the state after `new BaseServer(serverConfig, tenantConfigs)` *)

InitWith(configs) ==
    /\ tenantConfigs = configs
    /\ tenants = [i \in DOMAIN configs |-> Tenant(configs[i])]
    /\ domainTenantMap = BuildDomainTenantMap(EmptyMap, tenants, 1)
    /\ props = [o \in Owners |-> [k \in PropKeys |-> BuiltIn(o, k)]]
    /\ models = [t \in TenantIds |-> [n \in ModelNames |-> 0]]
    /\ metricsObjs = <<>>
    /\ routeObjs = <<>>
    /\ requests = <<>>
    /\ closeStack = <<>>
    /\ instances = <<>>
    /\ calls = <<>>
    /\ passes = <<>>
    /\ exited = FALSE
    /\ routes = <<>>
    /\ mounted = <<>>
    /\ routerCalls = <<>>

\* any tenant configs
InitTenants ==
    \E fields \in [TenantIds -> DomainFields] :
        InitWith([i \in TenantIds |-> Config(i, fields[i])])

\* tenant configs with pairwise different domains
InitFixed == InitWith(FixedConfigs)

\* the same, with any other entries
InitExtras ==
    \E extras \in [TenantIds -> ExtraConfigs] :
        InitWith([i \in TenantIds |-> [FixedConfigs[i] EXCEPT !.extra = extras[i]]])

NextTenants == Request(MaxLookups, Hostnames, {"/"})
SpecTenants == InitTenants /\ [][NextTenants]_vars

NextMetrics == Request(MaxRequests, FixedHostnames, Paths) \/ Finish \/ Abort
SpecMetrics == InitFixed /\ [][NextMetrics]_vars

\* the registration protocol, with creations and connects that may fail
NextRegister ==
    \/ Service({"none", "returns"})
    \/ Created(CreateOutcomes)
    \/ Connected
    \/ Model({"none", "returns"}, 0..NumTenants)
SpecRegister == InitFixed /\ [][NextRegister]_vars

\* The registration phase, with creations that succeed, followed by
\* shutdown: registrations are made before the first close(), and close()
\* is called when every registration has been awaited.
StartupService == passes = <<>> /\ Service(CloseFuncs)
StartupModel == passes = <<>> /\ Model(CloseFuncs, {0})
Shutdown == AllAwaited /\ Close

NextShutdown ==
    \/ StartupService
    \/ Created({"plain"})
    \/ StartupModel
    \/ Shutdown
    \/ Closed
    \/ ProcessExit
SpecShutdown == InitFixed /\ [][NextShutdown]_vars

\* The same, where every close function that was called settles in the end
\* (the assumption about the registered close functions) and the signal
\* handler resumes once the promise of its close() has resolved (the job
\* queue runs every continuation that is ready).
SpecShutdownFair == SpecShutdown /\ WF_vars(Closed) /\ WF_vars(ProcessExit)

\* model() calls, with constructors that may throw, among service() calls
\* whose creations succeed
NextModels ==
    \/ Model(CloseFuncs, 0..NumTenants)
    \/ Service({"returns"})
    \/ Created({"plain"})
SpecModels == InitFixed /\ [][NextModels]_vars

\* registrations made at any time, before, during or after a close() pass
NextLate ==
    \/ Service({"returns"})
    \/ Created({"plain"})
    \/ Model({"returns"}, {0})
    \/ Close
    \/ Closed
SpecLate == InitFixed /\ [][NextLate]_vars

\* requests to tenants whose configs hold other entries
NextLocals == Request(MaxLookups, FixedHostnames, {"/"})
SpecLocals == InitExtras /\ [][NextLocals]_vars

\* service() with arguments that may be invalid
NextValidate == ServiceInput({"returns"}) \/ Created({"plain"})
SpecValidate == InitFixed /\ [][NextValidate]_vars

\* Requests served by tenants that own services and models: registrations
\* are made and awaited at startup, before the first request is served.
Serve == AllAwaited /\ Request(MaxLookups, FixedHostnames, {"/"})
NextIsolation ==
    \/ requests = <<>> /\ Service({"none"})
    \/ Created({"plain"})
    \/ requests = <<>> /\ Model({"none"}, {0})
    \/ Serve
    \/ Finish
SpecIsolation == InitFixed /\ [][NextIsolation]_vars

\* service() calls that are not awaited before the next call is made
NextConcurrent ==
    \/ ServiceUnawaited(ServiceNames, {"returns"})
    \/ Created({"plain"})
SpecConcurrent == InitFixed /\ [][NextConcurrent]_vars

\* service() calls whose name is that of a field of the tenant objects or of
\* a member of the server, made before or after the tenants serve requests
NextBuiltIn ==
    \/ AllAwaited /\ ServiceUnawaited(TenantFields \cup ServerMembers, {"none"})
    \/ Created({"plain"})
    \/ Request(MaxLookups, FixedHostnames, {"/"})
    \/ Finish
SpecBuiltIn == InitFixed /\ [][NextBuiltIn]_vars

\* services whose connect may fail, registered at startup and closed by the
\* shutdown that follows
NextConnect ==
    \/ passes = <<>> /\ Service({"none", "returns"})
    \/ Created({"connectable"})
    \/ Connected
    \/ Shutdown
    \/ Closed
SpecConnect == InitFixed /\ [][NextConnect]_vars

\* the route table: router() calls made at startup
NextRouter == Router
SpecRouter == InitFixed /\ [][NextRouter]_vars

----------------------------------------------------------------------------
(* Properties *)

CountIn(seq, x) == Cardinality({i \in DOMAIN seq : seq[i] = x})

\* the instances that have an entry in the close stack
EntryIds == {closeStack[i].instance : i \in DOMAIN closeStack}

\* Instance ids are handed out in creation order and the entry of an
\* instance is added in the step that creates it, so entries were added in
\* the order of their instance ids.
AddedBefore(id1, id2) == id1 < id2

\* no entry was added to the close stack while pass p was running
NoneAddedDuring(p) ==
    \A id \in EntryIds : id <= passes[p].startInst \/ id > passes[p].endInst

\* the entries the close stack held when pass p started
EntriesOf(p) == {id \in EntryIds : id <= passes[p].startInst}

\* C1: a close() pass calls the close functions in the reverse of the order
\* in which their entries were added, all of them, and has at most one close
\* function in progress at any time.
C1_ReverseOrderOneAtATime ==
    \A p \in DOMAIN passes :
        /\ Cardinality(passes[p].awaiting) <= 1
        /\ \A i, j \in DOMAIN passes[p].log :
              i < j => AddedBefore(passes[p].log[j], passes[p].log[i])
        /\ passes[p].status = "resolved" /\ NoneAddedDuring(p)
              => Range(passes[p].log) = EntriesOf(p)

\* three entries from at least two registrations have been closed by one pass
C1_Witness ==
    \E p \in DOMAIN passes :
        /\ passes[p].status = "resolved"
        /\ Len(passes[p].log) >= 3
        /\ \E i, j \in DOMAIN passes[p].log :
              instances[passes[p].log[i]].call # instances[passes[p].log[j]].call

\* C2: whatever close functions raise, a close() pass never rejects, and once
\* it has ended every entry of the close stack has had exactly one close
\* attempt in it.
C2_FailureIsolation ==
    \A p \in DOMAIN passes :
        /\ passes[p].status # "rejected"
        /\ passes[p].status # "running" /\ NoneAddedDuring(p)
              => \A id \in EntriesOf(p) : CountIn(passes[p].log, id) = 1

\* a pass over three entries or more has ended in which a close function
\* threw and another one rejected, the first one called among them
C2_Witness ==
    \E p \in DOMAIN passes :
        /\ passes[p].status = "resolved"
        /\ Len(passes[p].log) >= 3
        /\ passes[p].log[1] \in Range(passes[p].errors)
        /\ \E e1, e2 \in Range(passes[p].errors) :
              /\ CloseBehaviour(e1) = "throws"
              /\ CloseBehaviour(e2) = "rejects"

\* the number of times the close function of the entry of instance id has
\* been called, over all passes
RECURSIVE CloseCalls(_, _)
CloseCalls(id, p) ==
    IF p = 0 THEN 0 ELSE CountIn(passes[p].log, id) + CloseCalls(id, p - 1)

\* C3: over any sequence of shutdown triggers, each registered close function
\* is called at most once.
C3_ClosedAtMostOnce ==
    \A id \in EntryIds : CloseCalls(id, Len(passes)) <= 1

DomainSet(t) == Range(tenants[t].domains)

\* C4: in every directory that has been built, the domain sets of two
\* different tenants are disjoint.
C4_DomainsDisjoint ==
    \A t1, t2 \in DOMAIN tenants : t1 # t2 => DomainSet(t1) \cap DomainSet(t2) = {}

\* the hostname the middleware looks up for request r
LookedUp(r) == trim(toLowerCase(requests[r].hostname))

\* C5: a request whose hostname is, up to case and surrounding whitespace, a
\* domain of tenant T is resolved to T.
C5_ResolvesToDeclaringTenant ==
    \A r \in DOMAIN requests : \A t \in DOMAIN tenants :
        LookedUp(r) \in DomainSet(t) => requests[r].tenant = t

Last(seq) == seq[Len(seq)]

AllDomains == UNION {DomainSet(t) : t \in DOMAIN tenants}

\* C6: the step that handles a request whose hostname is in no tenant's
\* domain set answers 404 with that hostname, does not call next(), and
\* leaves every metrics object and every tenant property as it was.
C6_UnknownHostname ==
    [][ (Len(requests') = Len(requests) + 1
          /\ trim(toLowerCase(Last(requests').hostname)) \notin AllDomains)
        => /\ Last(requests').state = "sent"
           /\ Last(requests').statusCode = 404
           /\ Last(requests').body = trim(toLowerCase(Last(requests').hostname))
           /\ ~Last(requests').nextCalled
           /\ Last(requests').tenant = 0
           /\ metricsObjs' = metricsObjs
           /\ routeObjs' = routeObjs
           /\ props' = props ]_vars

\* a subdomain of a declared domain has been answered 404 after a request of
\* that domain's tenant had created metrics
C6_Witness ==
    /\ Len(requests) = 2
    /\ requests[1].tenant # 0
    /\ requests[1].hostname = <<"a">>
    /\ requests[2].hostname = <<"c", ".", "a">>
    /\ requests[2].state = "sent"
    /\ requests[2].statusCode = 404

\* the service() calls that found owner o already holding the key
HeldTasks ==
    {<<c, o>> \in (DOMAIN calls) \X Owners :
        calls[c].kind = "service" /\ calls[c].tasks[o].held}

\* the instances created by call c
CreatedBy(c) == {id \in DOMAIN instances : instances[id].call = c}

\* C7 as claimed: a service() call with target "server" or "tenants" that
\* finds the key already owned fails, leaves the owner's property set, and
\* adds nothing to the close stack.
C7_CloseListUnchanged ==
    \A co \in {x \in HeldTasks : calls[x[1]].apply \in {"server", "tenants"}} :
        /\ CallStatus(calls[co[1]]) = "rejected"
        /\ Truthy(props[co[2]][calls[co[1]].name])
        /\ EntryIds \cap CreatedBy(co[1]) = {}

\* C7 as amended: a service() call that finds the key already owned by an
\* owner fails, creates no instance for that owner, so that it neither
\* reassigns the owner's key nor adds a close entry for that owner; the
\* owner's key stays set.
C7_OwnerUntouched ==
    \A co \in HeldTasks :
        /\ CallStatus(calls[co[1]]) = "rejected"
        /\ calls[co[1]].tasks[co[2]].state = "duplicate"
        /\ Truthy(props[co[2]][calls[co[1]].name])
        /\ props[co[2]][calls[co[1]].name].ref \notin CreatedBy(co[1])
        /\ \A id \in CreatedBy(co[1]) : instances[id].owner # co[2]

\* a call with target "tenants" has failed on a tenant that owned the key
\* and has created an instance, with a close entry, for another tenant
C7_Witness ==
    \E co \in HeldTasks :
        /\ calls[co[1]].apply = "tenants"
        /\ EntryIds \cap CreatedBy(co[1]) # {}

\* the metrics object of tenant t, when tenant.metrics is one
HasMetrics(t) == props[t]["metrics"].kind = "metrics"
MetricsOf(t) == metricsObjs[props[t]["metrics"].ref]

RECURSIVE SumCounts(_, _)
SumCounts(stats, keys) ==
    IF keys = {} THEN 0
    ELSE LET k == CHOOSE x \in keys : TRUE
         IN  routeObjs[stats[k]].count + SumCounts(stats, keys \ {k})

\* C8: when no request is in flight, the counts of the routes of a tenant's
\* metrics add up to its totalRequests.
C8_CountsAddUp ==
    InFlight = {} =>
        \A t \in TenantIds :
            HasMetrics(t) =>
                SumCounts(MetricsOf(t).routes, DOMAIN MetricsOf(t).routes)
                    = MetricsOf(t).totalRequests

\* requests on two route keys of one tenant have finished, one was aborted,
\* and none is in flight
C8_Witness ==
    /\ InFlight = {}
    /\ \E r1, r2, r3 \in DOMAIN requests :
          /\ requests[r1].tenant = requests[r2].tenant
          /\ requests[r1].routeKey # requests[r2].routeKey
          /\ requests[r1].state = "finished"
          /\ requests[r2].state = "finished"
          /\ requests[r3].state = "aborted"

\* the requests of tenant t that have finished, and those on route key k
Finished(t) ==
    {r \in DOMAIN requests : requests[r].tenant = t /\ requests[r].state = "finished"}
FinishedOn(t, k) == {r \in Finished(t) : requests[r].routeKey = k}

\* the route keys observed for tenant t
Observed(t) == {requests[r].routeKey : r \in {x \in DOMAIN requests : requests[x].tenant = t}}

\* the counter objects ever created for route key k of tenant t
CountersOf(t, k) ==
    {i \in DOMAIN routeObjs : routeObjs[i].tenant = t /\ routeObjs[i].routeKey = k}

\* C9: once the requests of a tenant have all finished, its totalRequests is
\* their number, each observed route key has exactly one counter, and each
\* counter's count is the number of requests made with its key.
C9_NoLostUpdate ==
    \A t \in TenantIds :
        (\A r \in DOMAIN requests : requests[r].tenant = t => requests[r].state = "finished")
        /\ Observed(t) # {}
        => /\ HasMetrics(t)
           /\ MetricsOf(t).totalRequests = Cardinality(Finished(t))
           /\ DOMAIN MetricsOf(t).routes = Observed(t)
           /\ \A k \in Observed(t) :
                 /\ Cardinality(CountersOf(t, k)) = 1
                 /\ routeObjs[MetricsOf(t).routes[k]].count
                       = Cardinality(FinishedOn(t, k))

\* three requests of one tenant have finished; the first two were the first
\* ones on their route key and were in flight together
C9_Witness ==
    \E t \in TenantIds :
        /\ Cardinality(Finished(t)) = 3
        /\ \A r \in DOMAIN requests : requests[r].tenant = t
        /\ requests[1].routeKey = requests[2].routeKey
        /\ requests[2].overlaps

\* C10: totalErrors of a tenant is the number of its finished requests whose
\* final status code is 400 or more, and never exceeds totalRequests.
C10_ErrorsCounted ==
    \A t \in TenantIds :
        HasMetrics(t) =>
            /\ MetricsOf(t).totalErrors =
                  Cardinality({r \in Finished(t) : requests[r].statusCode >= 400})
            /\ MetricsOf(t).totalErrors <= MetricsOf(t).totalRequests

\* a tenant has finished a request with status 400 and one with status 200
C10_Witness ==
    \E t \in TenantIds :
        /\ HasMetrics(t)
        /\ MetricsOf(t).totalErrors = 1
        /\ MetricsOf(t).totalRequests = 2
        /\ \E r1, r2 \in Finished(t) :
              requests[r1].statusCode = 400 /\ requests[r2].statusCode = 200

\* the routes of router() call k as entries of the flat table: the routes its
\* router gives, in their order, with the lead path of the call before each path
FlatOf(k) ==
    LET rs == getRoutes(routerCalls[k].routerClass)
    IN  [i \in DOMAIN rs |->
            [method |-> rs[i].method,
             path |-> routerCalls[k].leadPath \o rs[i].path,
             handler |-> rs[i].handler]]

RECURSIVE FlatUpTo(_)
FlatUpTo(k) == IF k = 0 THEN <<>> ELSE FlatUpTo(k - 1) \o FlatOf(k)

\* C11: when every router() call made so far has succeeded, the flat route
\* table is the concatenation, in call order, of the routes of each router
\* in definition order, each as (method, leadPath + path, handler).
C11_RouteTableInCallOrder ==
    (\A k \in DOMAIN routerCalls : ~routerCalls[k].threw)
        => routes = FlatUpTo(Len(routerCalls))

\* "/api" was mounted with (GET, "/users", h1) and (post, "/users", h2), then
\* a second router with routes of its own
C11_Witness ==
    /\ Len(routerCalls) = 2
    /\ \A k \in DOMAIN routerCalls : ~routerCalls[k].threw
    /\ routerCalls[1].leadPath = <<"/", "a", "p", "i">>
    /\ routerCalls[1].routerClass.decls = <<GET, post>>
    /\ Len(routes) >= 3
    /\ routes[1] = [method |-> <<"G", "E", "T">>,
                    path |-> <<"/", "a", "p", "i", "/", "u", "s", "e", "r", "s">>,
                    handler |-> "h1"]
    /\ routes[2] = [method |-> <<"P", "O", "S", "T">>,
                    path |-> <<"/", "a", "p", "i", "/", "u", "s", "e", "r", "s">>,
                    handler |-> "h2"]
    /\ routes[3].path # routes[1].path

\* the five verbs, in upper case
FiveVerbs ==
    { <<"G", "E", "T">>, <<"P", "O", "S", "T">>, <<"P", "U", "T">>,
      <<"P", "A", "T", "C", "H">>, <<"D", "E", "L", "E", "T", "E">> }

\* C12: every entry of the flat route table and every route wired into a
\* mounted router has, up to case, one of the methods GET, POST, PUT, PATCH
\* and DELETE.
C12_OnlyFiveVerbs ==
    /\ \A i \in DOMAIN routes : toUpperCase(routes[i].method) \in FiveVerbs
    /\ \A m \in DOMAIN mounted : \A i \in DOMAIN mounted[m].stack :
          toUpperCase(mounted[m].stack[i].method) \in FiveVerbs

\* the service() calls
ServiceCalls == {c \in DOMAIN calls : calls[c].kind = "service"}

\* C13: the step in which doCreate creates an instance that has a connect
\* function assigns the instance to its owner and calls connect; a service()
\* call has resolved only when the connect of every instance it created has
\* completed, and it is rejected when one of them has failed.
C13_ConnectAwaited ==
    [][ /\ \A id \in (DOMAIN instances') \ (DOMAIN instances) :
              /\ instances'[id].connect \in {"none", "pending"}
              /\ instances'[id].connect = "pending" =>
                    props'[instances'[id].owner][calls'[instances'[id].call].name]
                        = InstanceRef(id)
        /\ \A id \in DOMAIN instances' :
              LET status == CallStatus(calls'[instances'[id].call])
              IN  /\ status = "resolved" => instances'[id].connect \in {"none", "ok"}
                  /\ instances'[id].connect = "failed" => status = "rejected" ]_vars

\* a service() call has resolved after the connect of each of its two or more
\* instances completed, and another one was rejected by a failed connect
C13_Witness ==
    \E c1, c2 \in ServiceCalls :
        /\ CallStatus(calls[c1]) = "resolved"
        /\ Cardinality({id \in DOMAIN instances :
              instances[id].call = c1 /\ instances[id].connect = "ok"}) >= 2
        /\ CallStatus(calls[c2]) = "rejected"
        /\ \E id \in DOMAIN instances :
              instances[id].call = c2 /\ instances[id].connect = "failed"

\* C14: a service() call whose apply argument is not exactly "server",
\* "tenants" or "both", or whose name is empty, is rejected without starting
\* any creation: it invokes no factory and creates no instance, so that no
\* owner gains a property and the close stack gains no entry.
C14_InvalidCallDoesNothing ==
    \A c \in ServiceCalls :
        (calls[c].rawApply \notin {ApplyChars(a) : a \in Applies} \/ calls[c].name = "")
        => /\ CallStatus(calls[c]) = "rejected"
           /\ \A o \in Owners : calls[c].tasks[o] = NoTask
           /\ CreatedBy(c) = {}

\* the number of entries of the close stack that hold instance id
EntryCount(id) ==
    Cardinality({i \in DOMAIN closeStack : closeStack[i].instance = id})

\* C15: once a service() or model() call has resolved, each instance it
\* created has exactly one entry in the close stack when it came with a close
\* function (the closeFunc argument of service(), the close member of a
\* model) and none otherwise; entries are inserted at the front, so that the
\* stack lists them from the latest created to the earliest.
C15_OneEntryPerClosable ==
    /\ \A c \in DOMAIN calls :
          CallStatus(calls[c]) = "resolved" =>
              \A id \in CreatedBy(c) :
                  EntryCount(id) = IF calls[c].closeFunc = "none" THEN 0 ELSE 1
    /\ \A i, j \in DOMAIN closeStack :
          i < j => closeStack[i].instance > closeStack[j].instance

\* a call that came with a close function and a call that came without one
\* have both resolved, each having created instances for several owners
C15_Witness ==
    \E c1, c2 \in DOMAIN calls :
        /\ CallStatus(calls[c1]) = "resolved"
        /\ CallStatus(calls[c2]) = "resolved"
        /\ calls[c1].kind = "service"
        /\ calls[c1].closeFunc = "returns"
        /\ calls[c2].closeFunc = "none"
        /\ Cardinality(CreatedBy(c1)) >= 2
        /\ Cardinality(CreatedBy(c2)) >= 2
        /\ Len(closeStack) = Cardinality(CreatedBy(c1))

\* the tenant-scoped service() calls in which the creation for some tenant
\* has failed: createFunc or connect raised, or the key was already owned
FailedTenantCalls ==
    {c \in ServiceCalls :
        /\ calls[c].apply \in {"tenants", "both"}
        /\ \E t \in TenantIds : calls[c].tasks[t].state \in {"duplicate", "failed"}}

\* instance id is the value of the property of its owner under the name of
\* the call that created it
Assigned(id) ==
    props[instances[id].owner][calls[instances[id].call].name] = InstanceRef(id)

\* the property that held instance id now holds an instance that another
\* call created later for the same owner
Replaced(id) ==
    \E id2 \in DOMAIN instances :
        /\ id2 > id
        /\ instances[id2].call # instances[id].call
        /\ instances[id2].owner = instances[id].owner
        /\ calls[instances[id2].call].name = calls[instances[id].call].name
        /\ Assigned(id2)

ModelCalls == {c \in DOMAIN calls : calls[c].kind = "model"}

\* the instances that call c created for tenant t
CreatedFor(c, t) == {id \in CreatedBy(c) : instances[id].owner = t}

\* the property values of the server that are instances
ServerInstances ==
    {props[Server][k].ref : k \in {x \in PropKeys : props[Server][x].kind = "instance"}}

\* C17: a model() call that has resolved has constructed exactly one instance
\* per tenant, from the tenant object itself, and it is the tenant's model of
\* that name; no instance made by model() is ever a property of the server;
\* a model() call that found a tenant already holding a model of the name is
\* rejected and has left that tenant's model as it was.
C17_OneModelPerTenant ==
    \A c \in ModelCalls :
        /\ CallStatus(calls[c]) = "resolved" =>
              \A t \in TenantIds :
                  /\ Cardinality(CreatedFor(c, t)) = 1
                  /\ \A id \in CreatedFor(c, t) :
                        /\ instances[id].arg = [kind |-> "tenant", ref |-> t]
                        /\ models[t][calls[c].name] = id
        /\ \A id \in CreatedBy(c) :
              instances[id].owner # Server /\ id \notin ServerInstances
        /\ \A t \in TenantIds :
              calls[c].tasks[t].state = "duplicate" =>
                  /\ CallStatus(calls[c]) = "rejected"
                  /\ CreatedFor(c, t) = {}
                  /\ models[t][calls[c].name] # 0
                  /\ instances[models[t][calls[c].name]].call < c

\* a model() call has resolved, with a model for each tenant, and a second
\* one with the same name has been rejected as a duplicate
C17_Witness ==
    \E c1, c2 \in ModelCalls :
        /\ c1 < c2
        /\ CallStatus(calls[c1]) = "resolved"
        /\ calls[c2].tasks[1].state = "duplicate"
        /\ \A t \in TenantIds : instances[models[t][calls[c1].name]].call = c1

\* key k is "site_" followed by anything
IsSiteKey(k) ==
    /\ Len(k) >= 5
    /\ k[1] = "s" /\ k[2] = "i" /\ k[3] = "t" /\ k[4] = "e" /\ k[5] = "_"

\* the entries of the config of tenant t whose key is a site_ key
SiteEntries(t) ==
    LET es == Entries(tenants[t].config)
    IN  [k \in {x \in DOMAIN es : IsSiteKey(x)} |-> es[k]]

\* the requests that were resolved to a tenant
Resolved == {r \in DOMAIN requests : requests[r].tenant # 0}

\* C18: the res.locals of a request resolved to a tenant holds exactly the
\* entries of the tenant's config whose key starts with "site_", with their
\* values; so two requests whose tenants' configs agree on those entries have
\* the same res.locals, whatever the other entries are.
C18_OnlySiteEntries ==
    /\ \A r \in Resolved : requests[r].locals = SiteEntries(requests[r].tenant)
    /\ \A r1, r2 \in Resolved :
          SiteEntries(requests[r1].tenant) = SiteEntries(requests[r2].tenant)
              => requests[r1].locals = requests[r2].locals

\* requests of two tenants whose configs have the same site_t and different
\* db_url, and an entry "site", have been given the same, non-empty res.locals
C18_Witness ==
    \E r1, r2 \in Resolved :
        LET c1 == tenants[requests[r1].tenant].config
            c2 == tenants[requests[r2].tenant].config
        IN  /\ requests[r1].tenant # requests[r2].tenant
            /\ {SiteTitleKey, DbUrlKey, SiteKey} \subseteq DOMAIN c1.extra
            /\ {SiteTitleKey, DbUrlKey} \subseteq DOMAIN c2.extra
            /\ c1.extra[DbUrlKey] # c2.extra[DbUrlKey]
            /\ c1.extra[SiteTitleKey] = c2.extra[SiteTitleKey]
            /\ requests[r1].locals = requests[r2].locals
            /\ DOMAIN requests[r1].locals = {SiteTitleKey}

\* the requests of tenant t whose response has ended: it was sent in full,
\* or the client disconnected before
Ended(t) ==
    {r \in DOMAIN requests :
        requests[r].tenant = t /\ requests[r].state \in {"finished", "aborted"}}

\* C19: every request resolved to a tenant whose response has ended, with
\* any status or by a client disconnect, has been counted exactly once: the
\* tenant's totalRequests is the number of its ended requests.
C19_CountedWhenEnded ==
    \A t \in TenantIds :
        Ended(t) # {} =>
            /\ HasMetrics(t)
            /\ MetricsOf(t).totalRequests = Cardinality(Ended(t))

\* the service() and model() calls made after close() had been called
LateCalls == {c \in DOMAIN calls : calls[c].startPass > 0}

\* C20: a service() or model() call made once close() has been called is not
\* accepted: it creates no instance, so that it assigns nothing to the server
\* or to a tenant and adds nothing to the close stack.
C20_NoRegistrationAfterClose ==
    \A c \in LateCalls : CreatedBy(c) = {}

\* the tenant-scoped service() calls: apply is "tenants" or "both"
TenantScopedCalls ==
    {c \in ServiceCalls : calls[c].apply \in {"tenants", "both"}}

\* C21: once the promise of a tenant-scoped service() call has settled,
\* resolved or rejected, none of the creations the call started for a tenant
\* is still awaiting its createFunc or its connect.
C21_NothingPendingOnReturn ==
    \A c \in TenantScopedCalls :
        CallStatus(calls[c]) # "pending" =>
            \A t \in TenantIds :
                calls[c].tasks[t].state \notin {"creating", "connecting"}


\* C22: no tenant of the directory has an empty list of domains.
C22_NoTenantWithoutDomain ==
    \A t \in DOMAIN tenants : tenants[t].domains # <<>>


\* the tenants of the requests that a step starts or completes (0 for a
\* request that resolved to no tenant)
StepTenants ==
    {requests'[r].tenant :
        r \in {x \in DOMAIN requests' :
                  x \notin DOMAIN requests \/ requests'[x] # requests[x]}}

\* what tenant t owns: its properties (services and metrics among them),
\* its models, its metrics object with the counters of its routes, and the
\* instances created for it
TenantState(t) ==
    <<props[t], models[t],
      IF HasMetrics(t) THEN <<MetricsOf(t)>> ELSE <<>>,
      IF HasMetrics(t)
      THEN [k \in DOMAIN MetricsOf(t).routes |-> routeObjs[MetricsOf(t).routes[k]]]
      ELSE <<>>,
      [id \in {x \in DOMAIN instances : instances[x].owner = t} |-> instances[id]]>>

\* C23: a step of the middleware or of a finish callback for a request of
\* tenant A leaves the metrics, the route counters, the models and the
\* services of every other tenant as they were.
C23_OtherTenantsUntouched ==
    [][requests' # requests =>
          \A t \in TenantIds \ StepTenants : TenantState(t)' = TenantState(t)]_vars

\* two tenants that both own a service, a model and metrics: a request of
\* one has been served to its end after a request of the other had started
C23_Witness ==
    /\ \A t \in 1..2 :
          /\ props[t]["db"].kind = "instance"
          /\ models[t]["user"] # 0
          /\ HasMetrics(t)
    /\ \E r \in Finished(2) : \E x \in 1..(r - 1) : requests[x].tenant = 1


\* pass p has ended with a close attempt made for every entry of the close
\* stack
Complete(p) ==
    /\ p \in DOMAIN passes
    /\ passes[p].status = "resolved"
    /\ EntryIds \subseteq Range(passes[p].log)

SignalPasses == {p \in DOMAIN passes : passes[p].trigger = "signal"}

\* C24: when every close function that is called settles, a shutdown that
\* a signal has triggered ends: the process reaches its exit step, after a
\* close() of a signal handler has resolved with a close attempt made for
\* every entry; and every close() pass that has started resolves, with an
\* attempt for every entry, unless the process exits first.
C24_ShutdownEnds ==
    /\ (SignalPasses # {}) ~> (exited /\ \E p \in SignalPasses : Complete(p))
    /\ \A p \in 1..MaxCloses :
          (p \in DOMAIN passes) ~> (exited \/ Complete(p))

\* the process has exited after a pass over three entries or more, in which
\* a close promise rejected and a close function threw
C24_Witness ==
    /\ exited
    /\ \E p \in SignalPasses :
          /\ Complete(p)
          /\ Len(passes[p].log) >= 3
          /\ \E e1, e2 \in Range(passes[p].errors) :
                CloseBehaviour(e1) = "throws" /\ CloseBehaviour(e2) = "rejects"


\* the instances that service() calls have created for owner o under name n
ServiceInstances(o, n) ==
    {id \in DOMAIN instances :
        /\ instances[id].owner = o
        /\ calls[instances[id].call].kind = "service"
        /\ calls[instances[id].call].name = n}

\* C25: however service() calls for the same name and owner interleave, at
\* most one instance is created for that owner and name, and every service
\* instance with an entry in the close stack is the one its owner holds.
C25_OneInstancePerOwnerAndName ==
    /\ \A o \in Owners, n \in ServiceNames : Cardinality(ServiceInstances(o, n)) <= 1
    /\ \A o \in Owners, n \in ServiceNames :
          \A id \in ServiceInstances(o, n) \cap EntryIds : props[o][n] = InstanceRef(id)


\* C26: no field that initTenants or the middleware gives a tenant, and no
\* member of the server, ever holds an instance that service() created.
C26_BuiltInsKept ==
    /\ \A t \in TenantIds, k \in TenantFields : props[t][k].kind # "instance"
    /\ \A k \in ServerMembers : props[Server][k].kind # "instance"


\* the routes of the flat table, as (method in lower case, full path)
TableRoutes == {<<toLowerCase(routes[i].method), routes[i].path>> : i \in DOMAIN routes}

\* the routes mounted in the Express app, as (method, lead path + path)
MountedRoutes ==
    UNION {{<<mounted[k].stack[i].method, mounted[k].leadPath \o mounted[k].stack[i].path>> :
               i \in DOMAIN mounted[k].stack} : k \in DOMAIN mounted}

\* C27: after any router() calls, a route is in the flat route table exactly
\* when it is mounted in the Express app.
C27_TableAgreesWithTransport == TableRoutes = MountedRoutes


\* the instances whose connect has failed
ConnectFailed == {id \in DOMAIN instances : instances[id].connect = "failed"}

FailedAt(c) ==
    {t \in TenantIds : calls[c].tasks[t].state \in {"duplicate", "failed"}}

\* C29: a model() call goes through the tenants in directory order and
\* stops at the first one whose model name is taken or whose constructor
\* throws: in that step every tenant before it gets its new model instance,
\* with a close entry when the instance has a close function, the tenants get
\* theirs in directory order, and that tenant and every later one keep their
\* models, get no instance and no close entry; afterwards the earlier
\* tenants keep that instance and its entry.
C29_ModelStopsAtFirstFailure ==
    /\ [][Len(calls') = Len(calls) + 1 /\ calls'[Len(calls')].kind = "model" =>
            LET c == Len(calls')
                call == calls'[c]
                new == (DOMAIN instances') \ (DOMAIN instances)
                first == {t \in TenantIds : call.tasks[t].state \in {"duplicate", "failed"}}
            IN  /\ Cardinality(first) <= 1
                /\ \A f \in first, t \in TenantIds :
                      IF t < f
                      THEN /\ call.tasks[t].state = "done"
                           /\ models'[t][call.name] \in new
                           /\ instances'[models'[t][call.name]].owner = t
                           /\ \A t2 \in TenantIds :
                                 t < t2 /\ t2 < f =>
                                     models'[t][call.name] < models'[t2][call.name]
                           /\ IsFunction(call.closeFunc) =>
                                 \E i \in DOMAIN closeStack' :
                                     closeStack'[i].instance = models'[t][call.name]
                      ELSE /\ models'[t] = models[t]
                           /\ t > f => call.tasks[t].state = "none"
                           /\ \A id \in new : instances'[id].owner # t
                /\ Len(closeStack') - Len(closeStack) =
                      IF IsFunction(call.closeFunc) THEN Cardinality(new) ELSE 0
         ]_vars
    /\ [](\A c \in ModelCalls : \A f \in FailedAt(c), t \in TenantIds :
             IF t < f
             THEN \E id \in CreatedFor(c, t) :
                     /\ models[t][calls[c].name] = id
                     /\ IsFunction(calls[c].closeFunc) => EntryCount(id) = 1
             ELSE CreatedFor(c, t) = {})

\* a model() call whose constructor threw for the second tenant: the first
\* tenant holds the new instance, which has a close entry, and the second
\* tenant holds no model
C29_Witness ==
    \E c \in ModelCalls :
        /\ calls[c].tasks[2].state = "failed"
        /\ \E id \in CreatedFor(c, 1) : models[1][calls[c].name] = id /\ id \in EntryIds
        /\ models[2][calls[c].name] = 0


\* C30: whatever signals arrive, the process has exited only if the close()
\* of a signal handler has ended after calling the close function of every
\* entry of the close stack, with none of these calls still pending.
C30_ExitOnlyAfterCompletePass ==
    exited =>
        \E p \in SignalPasses :
            /\ passes[p].status = "resolved"
            /\ passes[p].awaiting = {}
            /\ \A id \in EntryIds : CountIn(passes[p].log, id) >= 1

\* two signals have arrived: the process has exited after the pass of one
\* handler over two entries or more, while the pass of the other handler
\* was still awaiting a close function
C30_Witness ==
    /\ exited
    /\ \E p, q \in SignalPasses :
          /\ passes[p].status = "resolved"
          /\ Len(passes[p].log) >= 2
          /\ passes[q].status = "running"
          /\ passes[q].awaiting # {}

====
